---- MODULE Spec2Model ----
(***************************************************************************)
(* Model of the websocket client actor of server/websockets (Client,       *)
(* Listen, listenerLoop, receiverLoop, closeConnections, handleMessage,    *)
(* runHandler, Close, hasPost, encodeMessage) and of the backlog endpoint  *)
(* serveBacklog.                                                           *)
(*                                                                         *)
(* Goroutines of one connection:                                           *)
(*   L  the goroutine that runs Listen (listenerLoop, then teardown)       *)
(*   R  the receiver goroutine started by Listen (receiverLoop)            *)
(*   producers  goroutines that send frames on c.write (feed fan-out)      *)
(*   closers    goroutines that call c.Close()                             *)
(* The age of a post is counted in minutes (now), the deadlines of the     *)
(* transport in seconds (clock).                                           *)
(***************************************************************************)
EXTENDS Integers, Sequences, FiniteSets, TLC

\* ------------------------------------------------------------------ bounds

\* inbound frames the receiver reads before the transport only fails
MaxReads == 2
\* inbound frames read on a connection that only its peer acts on
MaxPostReads == 3
\* frames each producer sends on c.write
MaxSends == 2
\* last minute of the clock
MaxTime == 30
\* bytes an open post's body holds at most
MaxBody == 1
\* frames the thread's log holds at most
MaxLog == 3
\* last second of the clock of the deadlines
MaxClock == 60
\* inbound frames read on a connection whose deadlines are followed
MaxTimedReads == 1

\* ------------------------------------------------- constants of the program

\* time.Minute*29 in hasPost
PostTTL == 29
\* message type tags of the protocol
messageInsertPost == 2
messageAppend == 3
messageClosePost == 6
messageSynchronise == 30
messageResynchronise == 31

\* writeTimeout and readTimeout, in seconds
writeTimeout == 30
readTimeout == 40
\* the deadline of the close frame's WriteControl: time.Second
closeFrameTimeout == 1

\* websocket frame kinds and close codes, kept symbolic
TextMessage == "TextMessage"
BinaryMessage == "BinaryMessage"
CloseNormalClosure == "CloseNormalClosure"
CloseInvalidFramePayloadData == "CloseInvalidFramePayloadData"
\* the zero value of closeType, left by the switch of closeConnections
CloseTypeZero == "closeType(0)"

\* errors
nil == "nil"
errInvalidFrame == "errInvalidFrame"
errInvalidPayload == "errInvalidPayload"
errNoPostOpen == "errNoPostOpen"
errPostAlreadyOpen == "errPostAlreadyOpen"
errStore == "storeError"
errWrite == "writeError"
errRead == "readError"
errCloseNormal == "CloseError(CloseNormalClosure)"
errCloseGoingAway == "CloseError(CloseGoingAway)"
errCloseOther == "CloseError(other)"
\* the error of a read whose deadline has passed
errTimeout == "i/o timeout"
\* a PostExpired error; hasPost returns none
errPostExpired == "errPostExpired"

CloseErrors == {errCloseNormal, errCloseGoingAway, errCloseOther}
ReadErrors == CloseErrors \cup {errRead}

Producers == {"p1"}
Closers == {"k1", "k2"}

\* ------------------------------------------------------------ frame parsing

Digits == <<"0", "1", "2", "3", "4", "5", "6", "7", "8", "9">>

IsDigit(ch) == \E i \in 1..Len(Digits) : Digits[i] = ch

DigitVal(ch) == (CHOOSE i \in 1..Len(Digits) : Digits[i] = ch) - 1

RECURSIVE ParseAcc(_, _)
ParseAcc(s, acc) ==
    IF s = <<>> THEN acc
    ELSE IF ~IsDigit(Head(s)) THEN -1
    ELSE ParseAcc(Tail(s), acc * 10 + DigitVal(Head(s)))

\* strconv.ParseUint(s, 10, bits): the value, or -1 for an error (empty
\* string, a byte that is no decimal digit, a value of more than `bits` bits)
\* (the strings of the model are short: none has a value of 2^31 or more)
ParseUint(s, bits) ==
    IF s = <<>> THEN -1
    ELSE LET v == ParseAcc(s, 0) IN
         IF v = -1 \/ (bits < 31 /\ v >= 2 ^ bits) THEN -1 ELSE v

\* strconv.FormatUint(n, 10)
RECURSIVE FormatUint(_)
FormatUint(n) ==
    IF n < 10 THEN <<Digits[n + 1]>>
    ELSE FormatUint(n \div 10) \o <<Digits[(n % 10) + 1]>>

\* ------------------------------------------------------- open post and store

NoPost == [id |-> 0, time |-> 0, bodyLength |-> 0]
NoStore == [open |-> FALSE, closed |-> FALSE, body |-> 0]

\* closePost(nil, c): flushes the body to the store and clears the open
\* post; a no-op without an open post; `ok` is whether the store accepts
closePost(op, st, ok) ==
    IF op.id = 0 THEN [err |-> nil, op |-> op, st |-> st]
    ELSE IF ok
    THEN [err |-> nil, op |-> NoPost,
          st |-> [open |-> FALSE, closed |-> TRUE, body |-> op.bodyLength]]
    ELSE [err |-> errStore, op |-> op, st |-> st]

hasPost_NoPostIsNoError(op, st, t, ok) ==
    IF op.id = 0
    THEN [has |-> FALSE, err |-> nil, op |-> op, st |-> st]
    ELSE IF op.time < t - PostTTL
    THEN LET r == closePost(op, st, ok) IN
         [has |-> FALSE, err |-> r.err, op |-> r.op, st |-> r.st]
    ELSE [has |-> TRUE, err |-> nil, op |-> op, st |-> st]

hasPost_ExpiredStaysOpen(op, st, t, ok) ==
    IF op.id = 0
    THEN [has |-> FALSE, err |-> errNoPostOpen, op |-> op, st |-> st]
    ELSE IF op.time < t - PostTTL
    THEN [has |-> FALSE, err |-> nil, op |-> op, st |-> st]
    ELSE [has |-> TRUE, err |-> nil, op |-> op, st |-> st]

\* Client.hasPost at time t
hasPost(op, st, t, ok) ==
    IF op.id = 0
    THEN [has |-> FALSE, err |-> errNoPostOpen, op |-> op, st |-> st]
    ELSE IF op.time < t - PostTTL
    THEN LET r == closePost(op, st, ok) IN
         [has |-> FALSE, err |-> r.err, op |-> r.op, st |-> r.st]
    ELSE [has |-> TRUE, err |-> nil, op |-> op, st |-> st]

\* ------------------------------------------------------------------ handlers
\* The state of the client a handler works on:
\*   [synced, registered, feed, openPost, store]
\* A handler returns [err, S, reply]: its error, the state it leaves and
\* whether it wrote a reply to the transport with c.sendMessage.

HandlerTypes ==
    {messageInsertPost, messageAppend, messageClosePost,
     messageSynchronise, messageResynchronise}

synchronise(S) ==
    [err |-> nil, reply |-> TRUE,
     S |-> [S EXCEPT !.synced = TRUE, !.registered = TRUE, !.feed = "open"]]

insertPost(S, t) ==
    IF S.openPost.id # 0
    THEN [err |-> errPostAlreadyOpen, reply |-> FALSE, S |-> S]
    ELSE [err |-> nil, reply |-> FALSE,
          S |-> [S EXCEPT !.openPost = [id |-> 1, time |-> t, bodyLength |-> 0],
                          !.store = [open |-> TRUE, closed |-> FALSE, body |-> 0]]]

appendRune(S, t, ok) ==
    LET h == hasPost(S.openPost, S.store, t, ok)
        S1 == [S EXCEPT !.openPost = h.op, !.store = h.st] IN
    IF h.err # nil THEN [err |-> h.err, reply |-> FALSE, S |-> S1]
    ELSE IF ~h.has THEN [err |-> nil, reply |-> FALSE, S |-> S1]
    ELSE [err |-> nil, reply |-> FALSE,
          S |-> [S1 EXCEPT !.openPost.bodyLength =
                     IF @ < MaxBody THEN @ + 1 ELSE @]]

closePostHandler(S, ok) ==
    LET r == closePost(S.openPost, S.store, ok) IN
    [err |-> r.err, reply |-> FALSE,
     S |-> [S EXCEPT !.openPost = r.op, !.store = r.st]]

handler(typ, S, t, ok) ==
    CASE typ = messageSynchronise -> synchronise(S)
      [] typ = messageResynchronise -> synchronise(S)
      [] typ = messageInsertPost -> insertPost(S, t)
      [] typ = messageAppend -> appendRune(S, t, ok)
      [] typ = messageClosePost -> closePostHandler(S, ok)

\* result of a rejected message: no handler ran
Reject(e, S) == [err |-> e, reply |-> FALSE, S |-> S, ran |-> -1]

runHandler_UnknownIgnored(typ, msg, S, t, ok) ==
    IF typ \notin HandlerTypes
    THEN [err |-> nil, reply |-> FALSE, S |-> S, ran |-> -1]
    ELSE LET r == handler(typ, S, t, ok) IN
         [err |-> r.err, reply |-> r.reply, S |-> r.S, ran |-> typ]

\* Client.runHandler
runHandler(typ, msg, S, t, ok) ==
    IF typ \notin HandlerTypes THEN Reject(errInvalidPayload, S)
    ELSE LET r == handler(typ, S, t, ok) IN
         [err |-> r.err, reply |-> r.reply, S |-> r.S, ran |-> typ]

handleMessage_NoSyncCheck(msgType, msg, S, t, ok) ==
    IF msgType # TextMessage THEN Reject(errInvalidFrame, S)
    ELSE IF Len(msg) < 2 THEN Reject(errInvalidPayload, S)
    ELSE LET uncast == ParseUint(SubSeq(msg, 1, 2), 8) IN
         IF uncast = -1 THEN Reject(errInvalidPayload, S)
         ELSE runHandler(uncast, msg, S, t, ok)

handleMessage_AnyFrameKind(msgType, msg, S, t, ok) ==
    IF Len(msg) < 2 THEN Reject(errInvalidPayload, S)
    ELSE LET uncast == ParseUint(SubSeq(msg, 1, 2), 8) IN
         IF uncast = -1 THEN Reject(errInvalidPayload, S)
         ELSE IF ~S.synced /\ uncast # messageSynchronise
                 /\ uncast # messageResynchronise
         THEN Reject(errInvalidPayload, S)
         ELSE runHandler(uncast, msg, S, t, ok)

handleMessage_MalformedDropped(msgType, msg, S, t, ok) ==
    IF msgType # TextMessage THEN Reject(errInvalidFrame, S)
    ELSE IF Len(msg) < 2 THEN Reject(nil, S)
    ELSE LET uncast == ParseUint(SubSeq(msg, 1, 2), 8) IN
         IF uncast = -1 THEN Reject(nil, S)
         ELSE IF ~S.synced /\ uncast # messageSynchronise
                 /\ uncast # messageResynchronise
         THEN Reject(errInvalidPayload, S)
         ELSE runHandler(uncast, msg, S, t, ok)

\* Client.handleMessage
handleMessage(msgType, msg, S, t, ok) ==
    IF msgType # TextMessage THEN Reject(errInvalidFrame, S)
    ELSE IF Len(msg) < 2 THEN Reject(errInvalidPayload, S)
    ELSE LET uncast == ParseUint(SubSeq(msg, 1, 2), 8) IN
         IF uncast = -1 THEN Reject(errInvalidPayload, S)
         ELSE IF ~S.synced /\ uncast # messageSynchronise
                 /\ uncast # messageResynchronise
         THEN Reject(errInvalidPayload, S)
         ELSE runHandler(uncast, msg, S, t, ok)

\* Client.send: conn.WriteMessage(TextMessage, msg) on the transport whose
\* frames so far are `w`; `ok` is whether the transport takes the write
send_Twice(msg, w, ok) ==
    IF ok THEN [err |-> nil, wire |-> Append(Append(w, msg), msg)]
    ELSE [err |-> errWrite, wire |-> w]

send(msg, w, ok) ==
    IF ok THEN [err |-> nil, wire |-> Append(w, msg)]
    ELSE [err |-> errWrite, wire |-> w]

\* closeConnections: the switch on the error that ended the loop
\* [err, closeType, notice]: the error kept, the close code chosen, whether
\* the invalid-message notice is sent
closeSwitch_GoingAwayIsAbnormal(e) ==
    IF e \in CloseErrors
    THEN IF e = errCloseNormal
         THEN [err |-> nil, closeType |-> CloseNormalClosure, notice |-> FALSE]
         ELSE [err |-> e, closeType |-> CloseTypeZero, notice |-> FALSE]
    ELSE IF e = nil
    THEN [err |-> nil, closeType |-> CloseNormalClosure, notice |-> FALSE]
    ELSE [err |-> e, closeType |-> CloseInvalidFramePayloadData,
          notice |-> TRUE]

closeSwitch(e) ==
    IF e \in CloseErrors
    THEN IF e \in {errCloseNormal, errCloseGoingAway}
         THEN [err |-> nil, closeType |-> CloseNormalClosure, notice |-> FALSE]
         ELSE [err |-> e, closeType |-> CloseTypeZero, notice |-> FALSE]
    ELSE IF e = nil
    THEN [err |-> nil, closeType |-> CloseNormalClosure, notice |-> FALSE]
    ELSE [err |-> e, closeType |-> CloseInvalidFramePayloadData, notice |-> TRUE]

\* --------------------------------------------------------------------- state

VARIABLES
    synced,           \* Client.synced
    registered,       \* the client is in the Clients registry
    closeUpdateFeed,  \* Client.closeUpdateFeed: "nil", "open" or "closed"
    closeCh,          \* Client.close: "open" or "closed"
    writeCh,          \* Client.write: "open" or "closed"
    conn,             \* the transport: "open" or "closed"
    readErr,          \* the error the transport's reads have failed with
    openPost,         \* Client.openPost
    store,            \* the post of this client in the canonical store
    now,              \* the clock, in minutes
    lpc,              \* position of the goroutine running Listen
    lmsg,             \* the receivedMessage or frame that goroutine holds
    err,              \* the error listenerLoop returned
    closeType,        \* closeType of closeConnections
    ret,              \* what Listen returned
    rpc,              \* position of the receiver goroutine
    rmsg,             \* the receivedMessage it holds
    ppc,              \* position of each producer
    psent,            \* frames each producer has handed over
    kpc,              \* position of each caller of Close
    crashed,          \* an unrecovered panic ended the process
    \* history
    reads,            \* frames read from the transport
    ran,              \* type of the handler the last handleMessage ran, or -1
    taken,            \* frames listenerLoop took from c.write, in order
    wire,             \* the frames of c.write written to the transport
    notice,           \* text of the invalid-message notice written, or "none"
    closeFrame,       \* close code of the close frame written, or "none"
    writing,          \* goroutines inside a write to the transport
    errored,          \* an operation of the loop has failed
    closeCount,       \* executions of close(c.close)
    sendOnClosed,     \* a goroutine sent on c.write after it was closed
    \* the thread of the backlog endpoint
    log,              \* the thread's replication log in the database
    known,            \* the counter a client read last
    missed,           \* the frames appended since it read the counter
    resp,             \* the last request to serveBacklog and its response
    counters,         \* the counters the appends returned, in order
    \* the frame codec
    encoded,          \* the last call of encodeMessage and its result
    decoded,          \* what the receiving side read from that frame
    \* the time of the transport's deadlines, in seconds
    clock,            \* the time
    wsince,           \* when the write to the transport in progress began
    rdeadline,        \* the read deadline of the transport, 0 for none
    lastCtl,          \* the last control frame received, and when
    \* the upgrade request of the connection
    handshake         \* its Origin header and what became of it

clientVars == <<synced, registered, closeUpdateFeed, openPost, store>>
chanVars == <<closeCh, writeCh, conn, readErr>>
loopVars == <<lpc, lmsg, err, closeType, ret>>
recvVars == <<rpc, rmsg, reads>>
prodVars == <<ppc, psent, sendOnClosed>>
histVars == <<ran, taken, wire, notice, closeFrame, errored, closeCount>>
actorVars == <<clientVars, chanVars, loopVars, recvVars, prodVars, histVars,
               now, kpc, crashed, writing>>
\* the variables outside the connection actor
backlogVars == <<log, known, missed, resp, counters>>
codecVars == <<encoded, decoded>>
timeVars == <<clock, wsince, rdeadline, lastCtl>>
restVars == <<backlogVars, codecVars, timeVars, handshake>>
vars == <<actorVars, restVars>>

NoResp == [args |-> <<>>, status |-> 0, body |-> <<>>]

NoMsg == [typ |-> "none", msg |-> <<>>, err |-> nil]

\* the zero time: no deadline
NoDeadline == 0

\* Listen has not returned
NoRet == [err |-> "none", closeError |-> FALSE]

NoEnc == [typ |-> 0, payload |-> [kind |-> "none"], err |-> nil, frame |-> <<>>]
NoDec == [err |-> nil, typ |-> -1, data |-> <<>>]

\* what conn.ReadMessage can deliver
InboundFrames ==
    {[typ |-> TextMessage, msg |-> m, err |-> nil] :
        m \in {<<"3", "0">>, <<"3", "1">>, <<"0", "2">>, <<"0", "3", "x">>,
               <<"0", "6">>, <<"9", "9">>, <<"7">>, <<"a", "b">>,
               <<"3", "x">>}}
    \cup {[typ |-> BinaryMessage, msg |-> m, err |-> nil] :
            m \in {<<"3", "0">>, <<"x">>}}

ErrMsg(e) == [typ |-> "none", msg |-> <<>>, err |-> e]

\* newClient, before Listen is called
\* ------------------------------------------------------------ CheckOrigin

\* config.AllowedOrigin, the host the server is configured to serve
AllowedOrigin == <<"allowed">>

\* the Origin headers of the upgrade requests, as the tokens of the text;
\* the empty sequence is the absent or empty header
Origins ==
    {<<>>,
     <<"http", "://", "allowed">>,
     <<"https", "://", "allowed">>,
     <<"http", "://", "other">>,
     <<"http", "://", "allowed", ":", "8080">>,
     <<"http", "://", "other", "/", "allowed">>,
     <<"allowed">>,
     <<"http", "://", "%">>,
     <<":", "allowed">>}

\* the tokens of s before the first token "/"
RECURSIVE Authority(_)
Authority(s) ==
    IF s = <<>> \/ Head(s) = "/" THEN <<>>
    ELSE <<Head(s)>> \o Authority(Tail(s))

\* url.Parse: it fails on a text that starts with a colon (no scheme before
\* it) or holds a malformed percent escape; the host is what follows
\* "scheme://" up to the next slash, port included, and is empty for a
\* text without "://"
urlParse(s) ==
    IF Head(s) = ":" \/ \E i \in 1..Len(s) : s[i] = "%"
    THEN [err |-> TRUE, Host |-> <<>>]
    ELSE IF Len(s) >= 2 /\ s[2] = "://"
    THEN [err |-> FALSE, Host |-> Authority(SubSeq(s, 3, Len(s)))]
    ELSE [err |-> FALSE, Host |-> <<>>]

CheckOrigin_ParseErrorPasses(origin) ==
    IF origin = <<>> THEN TRUE
    ELSE LET u == urlParse(origin) IN
         IF u.err THEN TRUE ELSE u.Host = AllowedOrigin

\* CheckOrigin: the request has no Origin, or the host of its Origin is the
\* configured one
CheckOrigin(origin) ==
    IF origin = <<>> THEN TRUE
    ELSE LET u == urlParse(origin) IN
         IF u.err THEN FALSE ELSE u.Host = AllowedOrigin

\* the upgrade request before Handler has run, after Upgrade refused it,
\* and after Upgrade accepted it and newClient built the Client
PendingHandshake == [origin |-> <<>>, state |-> "pending"]
RejectedHandshake(origin) == [origin |-> origin, state |-> "rejected"]
AcceptedHandshake(origin) == [origin |-> origin, state |-> "accepted"]

\* -------------------------------------------------------------------- Init

\* the fields of a Client as newClient sets them, and nothing of it running
Unstarted ==
    /\ synced = FALSE
    /\ registered = FALSE
    /\ closeUpdateFeed = "nil"
    /\ closeCh = "open"
    /\ writeCh = "open"
    /\ conn = "open"
    /\ readErr = nil
    /\ openPost = NoPost
    /\ store = NoStore
    /\ now = 0
    /\ lpc = "listen"
    /\ lmsg = NoMsg
    /\ err = nil
    /\ closeType = "unset"
    /\ ret = NoRet
    /\ rpc = "idle"
    /\ rmsg = NoMsg
    /\ ppc = [p \in Producers |-> "idle"]
    /\ psent = [p \in Producers |-> 0]
    /\ kpc = [k \in Closers |-> "idle"]
    /\ crashed = FALSE
    /\ reads = 0
    /\ ran = -1
    /\ taken = <<>>
    /\ wire = <<>>
    /\ notice = "none"
    /\ closeFrame = "none"
    /\ writing = {}
    /\ errored = FALSE
    /\ closeCount = 0
    /\ sendOnClosed = FALSE
    /\ log = <<>>
    /\ known = 0
    /\ missed = <<>>
    /\ resp = NoResp
    /\ counters = <<>>
    /\ encoded = NoEnc
    /\ decoded = NoDec
    /\ clock = 0
    /\ wsince = 0
    /\ rdeadline = NoDeadline
    /\ lastCtl = [kind |-> "none", at |-> 0]

\* a Client that Handler has built for an upgrade request without Origin
Init ==
    /\ Unstarted
    /\ handshake = AcceptedHandshake(<<>>)

\* an upgrade request that has reached Handler
InitHandshake ==
    /\ Unstarted
    /\ handshake = PendingHandshake

ClientState ==
    [synced |-> synced, registered |-> registered, feed |-> closeUpdateFeed,
     openPost |-> openPost, store |-> store]

\* the clock advances by d minutes
Tick(d) ==
    /\ ~crashed
    /\ now + d <= MaxTime
    /\ now' = now + d
    /\ UNCHANGED <<clientVars, chanVars, loopVars, recvVars, prodVars,
                   histVars, kpc, crashed, writing,
                   restVars>>

\* ---------------------------------------------------------------- Listen

\* Listen: go c.receiverLoop(), then listenerLoop
\* Handler up to the call of Listen: upgrader.Upgrade, which refuses the
\* request when CheckOrigin does (or when the rest of the handshake fails),
\* and then the return, or newClient
Handler(origin) ==
    /\ handshake.state = "pending"
    /\ \E upgradeOk \in BOOLEAN :
         handshake' = IF CheckOrigin(origin) /\ upgradeOk
                      THEN AcceptedHandshake(origin)
                      ELSE RejectedHandshake(origin)
    /\ UNCHANGED <<actorVars, backlogVars, codecVars, timeVars>>

Listen ==
    /\ ~crashed
    /\ handshake.state = "accepted"
    /\ lpc = "listen"
    /\ lpc' = "select"
    /\ rpc' = "read"
    /\ rdeadline' = clock + readTimeout
    /\ lastCtl' = [kind |-> "none", at |-> clock]
    /\ UNCHANGED <<clientVars, chanVars, lmsg, err, closeType, ret, rmsg,
                   reads, prodVars, histVars, now, kpc, crashed, writing,
                   backlogVars, handshake, codecVars,
                   clock, wsince>>

\* listenerLoop: case <-c.close
ListenerClose ==
    /\ ~crashed
    /\ lpc = "select"
    /\ closeCh = "closed"
    /\ lpc' = "exited"
    /\ err' = nil
    /\ UNCHANGED <<clientVars, chanVars, lmsg, closeType, ret, recvVars,
                   prodVars, histVars, now, kpc, crashed, writing,
                   restVars>>

\* listenerLoop: case msg := <-c.receive, the receiver handing its message
\* over; a message that carries an error ends the loop. c.receive has no
\* buffer, so one of the two goroutines waits in its select for the other,
\* and neither waits in a select once c.close is closed: both selects hold
\* the case <-c.close, which is then ready.
ListenerReceive ==
    /\ ~crashed
    /\ lpc = "select"
    /\ rpc = "handoff"
    /\ closeCh = "open"
    /\ lmsg' = rmsg
    /\ rpc' = "read"
    /\ IF rmsg.err # nil
       THEN /\ lpc' = "exited"
            /\ err' = rmsg.err
            /\ errored' = TRUE
       ELSE /\ lpc' = "handle"
            /\ UNCHANGED <<err, errored>>
    /\ UNCHANGED <<clientVars, chanVars, closeType, ret, rmsg, reads,
                   prodVars, ran, taken, wire, notice, closeFrame,
                   closeCount, now, kpc, crashed, writing,
                   restVars>>

\* listenerLoop: c.handleMessage(msg.typ, msg.msg); a handler that replies
\* is left inside its write to the transport
ListenerHandle ==
    /\ ~crashed
    /\ lpc = "handle"
    /\ \E ok \in BOOLEAN :
         LET r == handleMessage(lmsg.typ, lmsg.msg, ClientState, now, ok) IN
         /\ synced' = r.S.synced
         /\ registered' = r.S.registered
         /\ closeUpdateFeed' = r.S.feed
         /\ openPost' = r.S.openPost
         /\ store' = r.S.store
         /\ ran' = r.ran
         /\ IF r.err # nil
            THEN /\ lpc' = "exited"
                 /\ err' = r.err
                 /\ errored' = TRUE
                 /\ UNCHANGED writing
            ELSE IF r.reply
            THEN /\ lpc' = "reply"
                 /\ writing' = writing \cup {"L"}
                 /\ UNCHANGED <<err, errored>>
            ELSE /\ lpc' = "select"
                 /\ UNCHANGED <<err, errored, writing>>
    /\ wsince' = IF lpc' = "reply" THEN clock ELSE wsince
    /\ UNCHANGED <<chanVars, lmsg, closeType, ret, recvVars, prodVars, taken,
                   notice, wire, closeFrame, closeCount, now, kpc, crashed,
                   backlogVars, handshake, codecVars,
                   clock, rdeadline, lastCtl>>

\* the handler's c.sendMessage returns; its error is the handler's error
ListenerReply ==
    /\ ~crashed
    /\ lpc = "reply"
    /\ \E ok \in BOOLEAN :
         LET r == send(SubSeq(lmsg.msg, 1, 2), <<>>, ok) IN
         /\ IF r.err # nil
            THEN /\ lpc' = "exited"
                 /\ err' = r.err
                 /\ errored' = TRUE
            ELSE /\ lpc' = "select"
                 /\ UNCHANGED <<err, errored>>
    /\ writing' = writing \ {"L"}
    /\ wsince' = 0
    /\ UNCHANGED <<clientVars, chanVars, lmsg, closeType, ret, recvVars,
                   prodVars, ran, taken, wire, notice, closeFrame, closeCount, now,
                   kpc, crashed,
                   backlogVars, handshake, codecVars,
                   clock, rdeadline, lastCtl>>

\* a producer's frame: <<producer, number>>
Frame(p) == <<p, psent[p] + 1>>

\* listenerLoop: case msg := <-c.write, taking the frame of a producer that
\* is blocked in its send (the channel has no buffer), then entering c.send
ListenerTakeWrite(p) ==
    /\ ~crashed
    /\ lpc = "select"
    /\ ppc[p] = "send"
    /\ writeCh = "open"
    /\ lmsg' = [typ |-> "frame", msg |-> Frame(p), err |-> nil]
    /\ taken' = Append(taken, Frame(p))
    /\ ppc' = [ppc EXCEPT ![p] = "idle"]
    /\ psent' = [psent EXCEPT ![p] = @ + 1]
    /\ lpc' = "sending"
    /\ writing' = writing \cup {"L"}
    /\ wsince' = clock
    /\ UNCHANGED <<clientVars, chanVars, err, closeType, ret, recvVars,
                   sendOnClosed, ran, wire, notice, closeFrame, errored, closeCount,
                   now, kpc, crashed,
                   backlogVars, handshake, codecVars,
                   clock, rdeadline, lastCtl>>

\* what listenerLoop does with the result of c.send(msg):
\* [lpc, err, errored]
AfterSend_Continue(e, oldErr, oldErrored) ==
    [lpc |-> "select", err |-> oldErr,
     errored |-> IF e # nil THEN TRUE ELSE oldErrored]

AfterSend(e, oldErr, oldErrored) ==
    IF e # nil THEN [lpc |-> "exited", err |-> e, errored |-> TRUE]
    ELSE [lpc |-> "select", err |-> oldErr, errored |-> oldErrored]

\* listenerLoop: c.send(msg) returns
ListenerSend ==
    /\ ~crashed
    /\ lpc = "sending"
    /\ \E ok \in BOOLEAN :
         LET r == send(lmsg.msg, wire, ok)
             a == AfterSend(r.err, err, errored) IN
         /\ wire' = r.wire
         /\ lpc' = a.lpc
         /\ err' = a.err
         /\ errored' = a.errored
    /\ writing' = writing \ {"L"}
    /\ wsince' = 0
    /\ UNCHANGED <<clientVars, chanVars, lmsg, closeType, ret, recvVars,
                   prodVars, ran, taken, notice, closeFrame, closeCount, now,
                   kpc, crashed,
                   backlogVars, handshake, codecVars,
                   clock, rdeadline, lastCtl>>

\* listenerLoop: case <-ping, entering c.conn.WriteControl(PingMessage, ...)
ListenerPing ==
    /\ ~crashed
    /\ lpc = "select"
    /\ lpc' = "pinging"
    /\ writing' = writing \cup {"L"}
    /\ wsince' = clock
    /\ UNCHANGED <<clientVars, chanVars, lmsg, err, closeType, ret, recvVars,
                   prodVars, histVars, now, kpc, crashed,
                   backlogVars, handshake, codecVars,
                   clock, rdeadline, lastCtl>>

\* the ping's WriteControl returns
ListenerPingDone ==
    /\ ~crashed
    /\ lpc = "pinging"
    /\ \E ok \in BOOLEAN :
         IF ok
         THEN /\ lpc' = "select"
              /\ UNCHANGED <<err, errored>>
         ELSE /\ lpc' = "exited"
              /\ err' = errWrite
              /\ errored' = TRUE
    /\ writing' = writing \ {"L"}
    /\ wsince' = 0
    /\ UNCHANGED <<clientVars, chanVars, lmsg, closeType, ret, recvVars,
                   prodVars, ran, taken, wire, notice, closeFrame,
                   closeCount, now, kpc, crashed,
                   backlogVars, handshake, codecVars,
                   clock, rdeadline, lastCtl>>

\* --------------------------------------------------------------- teardown

\* Listen: Clients.Remove(c)
ClientsRemove ==
    /\ ~crashed
    /\ lpc = "exited"
    /\ registered' = FALSE
    /\ lpc' = "closeFeed"
    /\ lmsg' = NoMsg
    /\ UNCHANGED <<synced, closeUpdateFeed, openPost, store, chanVars,
                   err, closeType, ret, recvVars, prodVars, histVars, now,
                   kpc, crashed, writing,
                   restVars>>

\* closeConnections: if c.closeUpdateFeed != nil { close(c.closeUpdateFeed) }
CloseFeed ==
    /\ ~crashed
    /\ lpc = "closeFeed"
    /\ closeUpdateFeed' = IF closeUpdateFeed # "nil" THEN "closed"
                          ELSE closeUpdateFeed
    /\ lpc' = "closeClose"
    /\ UNCHANGED <<synced, registered, openPost, store, chanVars, lmsg, err,
                   closeType, ret, recvVars, prodVars, histVars, now, kpc,
                   crashed, writing,
                   restVars>>

\* closeConnections: if err != nil { close(c.close) }; closing a closed
\* channel panics the goroutine
CloseClose ==
    /\ ~crashed
    /\ lpc = "closeClose"
    /\ IF err = nil
       THEN /\ lpc' = "closeWrite"
            /\ UNCHANGED <<closeCh, closeCount>>
       ELSE /\ closeCount' = closeCount + 1
            /\ closeCh' = "closed"
            /\ lpc' = IF closeCh = "closed" THEN "panicked" ELSE "closeWrite"
    /\ UNCHANGED <<clientVars, writeCh, conn, readErr, lmsg, err, closeType,
                   ret, recvVars, prodVars, ran, taken, wire, notice,
                   closeFrame, errored, now, kpc, crashed, writing,
                   restVars>>

\* closeConnections: close(c.write)
CloseWrite ==
    /\ ~crashed
    /\ lpc = "closeWrite"
    /\ writeCh' = "closed"
    /\ lpc' = "switch"
    /\ UNCHANGED <<clientVars, closeCh, conn, readErr, lmsg, err, closeType,
                   ret, recvVars, prodVars, histVars, now, kpc, crashed,
                   writing,
                   restVars>>

\* closeConnections: the switch on err; its default case enters
\* c.sendMessage(messageInvalid, err.Error()), the others go on to the
\* WriteControl of the close frame
CloseSwitch ==
    /\ ~crashed
    /\ lpc = "switch"
    /\ LET r == closeSwitch(err) IN
       /\ err' = r.err
       /\ closeType' = r.closeType
       /\ lpc' = IF r.notice THEN "notice" ELSE "closeFrame"
    /\ writing' = writing \cup {"L"}
    /\ wsince' = clock
    /\ UNCHANGED <<clientVars, chanVars, lmsg, ret, recvVars, prodVars,
                   histVars, now, kpc, crashed,
                   backlogVars, handshake, codecVars,
                   clock, rdeadline, lastCtl>>

\* closeConnections: c.sendMessage returns (its error is dropped) and the
\* WriteControl of the close frame is entered
CloseNotice ==
    /\ ~crashed
    /\ lpc = "notice"
    /\ \E ok \in BOOLEAN :
         notice' = IF send(<<err>>, <<>>, ok).err = nil THEN err ELSE notice
    /\ lpc' = "closeFrame"
    /\ wsince' = clock
    /\ UNCHANGED <<clientVars, chanVars, lmsg, err, closeType, ret, recvVars,
                   prodVars, ran, taken, wire, closeFrame, errored,
                   closeCount, now, kpc, crashed, writing,
                   backlogVars, handshake, codecVars,
                   clock, rdeadline, lastCtl>>

\* closeConnections: the WriteControl of the close frame returns (its error
\* is dropped)
CloseFrame ==
    /\ ~crashed
    /\ lpc = "closeFrame"
    /\ \E ok \in BOOLEAN :
         closeFrame' = IF ok THEN closeType ELSE closeFrame
    /\ lpc' = "connClose"
    /\ writing' = writing \ {"L"}
    /\ wsince' = 0
    /\ UNCHANGED <<clientVars, chanVars, lmsg, err, closeType, ret, recvVars,
                   prodVars, ran, taken, notice, wire, errored, closeCount,
                   now, kpc, crashed,
                   backlogVars, handshake, codecVars,
                   clock, rdeadline, lastCtl>>

\* closeConnections: c.conn.Close(), and the return
ConnClose ==
    /\ ~crashed
    /\ lpc = "connClose"
    /\ conn' = "closed"
    /\ \E closeError \in BOOLEAN :
         ret' = [err |-> err, closeError |-> closeError]
    /\ lpc' = "done"
    /\ UNCHANGED <<clientVars, closeCh, writeCh, readErr, lmsg, err,
                   closeType, recvVars, prodVars, histVars, now, kpc,
                   crashed, writing,
                   restVars>>

\* ----------------------------------------------------------- receiverLoop

receiverWrites_Replies(w) == w \cup {"R"}

\* the writes to the transport in progress once receiverLoop has its
\* message: the loop itself starts none, it only hands the message over
receiverWrites(w) == w

\* receiverLoop: c.conn.ReadMessage() returns; the transport delivers at
\* most `limit` frames before it fails
ReceiverRead(limit) ==
    /\ ~crashed
    /\ rpc = "read"
    /\ rpc' = "handoff"
    /\ IF readErr # nil
       THEN /\ rmsg' = ErrMsg(readErr)
            /\ UNCHANGED <<readErr, reads>>
       ELSE IF conn = "closed"
       THEN /\ rmsg' = ErrMsg(errRead)
            /\ readErr' = errRead
            /\ UNCHANGED reads
       ELSE \/ /\ reads < limit
               /\ \E m \in InboundFrames : rmsg' = m
               /\ reads' = reads + 1
               /\ UNCHANGED readErr
            \/ /\ \E e \in ReadErrors :
                    /\ rmsg' = ErrMsg(e)
                    /\ readErr' = e
               /\ UNCHANGED reads
    /\ writing' = receiverWrites(writing)
    /\ UNCHANGED <<clientVars, closeCh, writeCh, conn, loopVars, prodVars,
                   histVars, now, kpc, crashed, restVars>>

\* receiverLoop: case <-c.close: return
ReceiverQuit ==
    /\ ~crashed
    /\ rpc = "handoff"
    /\ closeCh = "closed"
    /\ rpc' = "done"
    /\ UNCHANGED <<clientVars, chanVars, loopVars, rmsg, reads, prodVars,
                   histVars, now, kpc, crashed, writing,
                   restVars>>

\* ---------------------------------------------------------------- producers

\* a broadcast to the feed picks the client, which is subscribed, and
\* starts c.write <- frame
ProducerPick(p) ==
    /\ ~crashed
    /\ ppc[p] = "idle"
    /\ psent[p] < MaxSends
    /\ registered /\ synced
    /\ ppc' = [ppc EXCEPT ![p] = "send"]
    /\ UNCHANGED <<clientVars, chanVars, loopVars, recvVars, psent,
                   sendOnClosed, histVars, now, kpc, crashed, writing,
                   restVars>>

\* a send on the closed c.write panics, in a goroutine nothing recovers
ProducerPanic(p) ==
    /\ ~crashed
    /\ ppc[p] = "send"
    /\ writeCh = "closed"
    /\ ppc' = [ppc EXCEPT ![p] = "panicked"]
    /\ sendOnClosed' = TRUE
    /\ crashed' = TRUE
    /\ UNCHANGED <<clientVars, chanVars, loopVars, recvVars, psent, histVars,
                   now, kpc, writing,
                   restVars>>

\* ---------------------------------------------------------------- deadlines

\* the deadline of the write to the transport in progress: the ping's
\* WriteControl has writeTimeout, the close frame's one second, and c.send
\* (WriteMessage, for which no write deadline is ever set) has none
WriteDeadline ==
    CASE lpc = "pinging" -> wsince + writeTimeout
      [] lpc = "closeFrame" -> wsince + closeFrameTimeout
      [] OTHER -> NoDeadline

\* the deadlines of the operations on the transport that are in progress
PendingDeadlines ==
    {dl \in {WriteDeadline}
              \cup (IF rpc = "read" /\ readErr = nil /\ conn = "open"
                    THEN {rdeadline} ELSE {}) : dl # NoDeadline}

\* the seconds that pass at once
TimeSteps == {10}

\* time passes, up to the next deadline of an operation in progress; an
\* operation whose deadline is reached returns before more time passes
TickSec(d) ==
    /\ ~crashed
    /\ lpc # "listen"
    /\ clock + d <= MaxClock
    /\ \A dl \in PendingDeadlines : dl > clock
    /\ clock' = IF \E dl \in PendingDeadlines : dl < clock + d
                THEN CHOOSE dl \in PendingDeadlines :
                         \A o \in PendingDeadlines : dl <= o
                ELSE clock + d
    /\ UNCHANGED <<actorVars, handshake, backlogVars, codecVars, wsince,
                   rdeadline, lastCtl>>

\* the control frames the peer sends
ControlKinds == {"ping", "pong"}

refreshes_AnyControl(kind) == kind \in {"ping", "pong"}

\* whether the handler the connection has for a control frame sets the
\* read deadline anew: only the pong handler of receiverLoop does
refreshes(kind) == kind = "pong"

\* ReadMessage meets a control frame of the peer and runs its handler; it
\* goes on reading
PeerControl(kind) ==
    /\ ~crashed
    /\ rpc = "read" /\ readErr = nil /\ conn = "open"
    /\ clock <= rdeadline
    /\ lastCtl' = [kind |-> kind, at |-> clock]
    /\ rdeadline' = IF refreshes(kind) THEN clock + readTimeout ELSE rdeadline
    /\ UNCHANGED <<actorVars, handshake, backlogVars, codecVars, clock, wsince>>

\* receiverLoop: c.conn.ReadMessage() fails because the read deadline has
\* passed
ReceiverTimeout ==
    /\ ~crashed
    /\ rpc = "read" /\ readErr = nil /\ conn = "open"
    /\ rdeadline # NoDeadline /\ clock >= rdeadline
    /\ rmsg' = ErrMsg(errTimeout)
    /\ readErr' = errTimeout
    /\ rpc' = "handoff"
    /\ UNCHANGED <<clientVars, closeCh, writeCh, conn, loopVars, reads,
                   prodVars, histVars, now, kpc, crashed, writing,
                   restVars>>

\* -------------------------------------------------------------------- Close

\* Close: the select finds c.close closed, or takes its default case
CloseCheck(k) ==
    /\ ~crashed
    /\ kpc[k] = "idle"
    /\ kpc' = [kpc EXCEPT ![k] = IF closeCh = "closed" THEN "done"
                                  ELSE "default"]
    /\ UNCHANGED <<clientVars, chanVars, loopVars, recvVars, prodVars,
                   histVars, now, crashed, writing,
                   restVars>>

\* Close: close(c.close) of the default case
CloseDefault(k) ==
    /\ ~crashed
    /\ kpc[k] = "default"
    /\ closeCount' = closeCount + 1
    /\ closeCh' = "closed"
    /\ IF closeCh = "closed"
       THEN /\ kpc' = [kpc EXCEPT ![k] = "panicked"]
            /\ crashed' = TRUE
       ELSE /\ kpc' = [kpc EXCEPT ![k] = "done"]
            /\ UNCHANGED crashed
    /\ UNCHANGED <<clientVars, writeCh, conn, readErr, loopVars, recvVars,
                   prodVars, ran, taken, wire, notice, closeFrame, errored,
                   now, writing,
                   restVars>>

\* ------------------------------------------------------------ serveBacklog

\* the threads of the database
Threads == {10}

\* the frames appended to a thread's log
FeedFrames == {<<"0", "2", "a">>, <<"0", "3", "b", "c">>}

\* the path parameters a request can carry
NumberParams == {FormatUint(n) : n \in 0..(MaxLog + 1)}
BadParams == {<<>>, <<"x">>, <<"-", "1">>}
ThreadParams == {FormatUint(10), FormatUint(11), <<"x">>}

Slice_FromOne(arr, start, end) ==
    IF start > Len(arr) \/ end <= start THEN <<>>
    ELSE SubSeq(arr, IF start = 0 THEN 1 ELSE start,
                IF end - 1 < Len(arr) THEN end - 1 ELSE Len(arr))

\* ReQL slice(start, end) of an array: the elements of index start to
\* end - 1, counted from 0; nothing when start is past the end of the array
\* or end is not after start
Slice(arr, start, end) ==
    IF start >= Len(arr) \/ end <= start THEN <<>>
    ELSE SubSeq(arr, start + 1, IF end < Len(arr) THEN end ELSE Len(arr))

\* websockets.ConcatMessages: the frames one after the other
RECURSIVE ConcatMessages(_)
ConcatMessages(msgs) ==
    IF msgs = <<>> THEN <<>> ELSE Head(msgs) \o ConcatMessages(Tail(msgs))

serveBacklog_StartExclusive(p, threadLog, dbOk) ==
    LET args == [i \in 1..3 |-> ParseUint(p[i], 64)] IN
    IF \E i \in 1..3 : args[i] = -1 THEN [status |-> 400, body |-> <<>>]
    ELSE IF ~dbOk THEN [status |-> 500, body |-> <<>>]
    ELSE LET sl == IF args[1] \in Threads
                   THEN Slice(threadLog, args[2] + 1, args[3])
                   ELSE <<>> IN
         [status |-> 200, body |-> ConcatMessages(sl)]

serveBacklog_EndInclusive(p, threadLog, dbOk) ==
    LET args == [i \in 1..3 |-> ParseUint(p[i], 64)] IN
    IF \E i \in 1..3 : args[i] = -1 THEN [status |-> 400, body |-> <<>>]
    ELSE IF ~dbOk THEN [status |-> 500, body |-> <<>>]
    ELSE LET sl == IF args[1] \in Threads
                   THEN Slice(threadLog, args[2], args[3] + 1)
                   ELSE <<>> IN
         [status |-> 200, body |-> ConcatMessages(sl)]

\* serveBacklog with the path parameters p = <<thread, start, end>>, the
\* log of the one thread of the database and whether the query succeeds:
\* the status and the body of the response
serveBacklog(p, threadLog, dbOk) ==
    LET args == [i \in 1..3 |-> ParseUint(p[i], 64)] IN
    IF \E i \in 1..3 : args[i] = -1 THEN [status |-> 400, body |-> <<>>]
    ELSE IF ~dbOk THEN [status |-> 500, body |-> <<>>]
    ELSE LET sl == IF args[1] \in Threads
                   THEN Slice(threadLog, args[2], args[3])
                   ELSE <<>> IN
         [status |-> 200, body |-> ConcatMessages(sl)]

\* the counter of a thread: the number of frames of its log
currentCounter(threadLog) == Len(threadLog)

\* a frame is appended to the thread's log, and the append returns the
\* thread's new counter
FeedAppend(f) ==
    /\ Len(log) < MaxLog
    /\ log' = Append(log, f)
    /\ counters' = Append(counters, currentCounter(log'))
    /\ missed' = Append(missed, f)
    /\ resp' = NoResp
    /\ UNCHANGED <<known, actorVars, handshake, codecVars, timeVars>>

\* a client reads the thread's counter
ReadCounter ==
    /\ known' = currentCounter(log)
    /\ missed' = <<>>
    /\ resp' = NoResp
    /\ UNCHANGED <<log, counters, actorVars, handshake, codecVars, timeVars>>

\* a request to the backlog endpoint is served (resp keeps one request: the
\* first after the log or the client's counter changed)
ServeBacklog(p) ==
    /\ resp = NoResp
    /\ \E dbOk \in BOOLEAN :
         LET r == serveBacklog(p, log, dbOk) IN
         resp' = [args |-> p, status |-> r.status, body |-> r.body]
    /\ UNCHANGED <<log, known, missed, counters, actorVars, handshake,
                   codecVars, timeVars>>

NextBacklog ==
    \/ \E f \in FeedFrames : FeedAppend(f)
    \/ ReadCounter
    \/ \E th \in ThreadParams, a, b \in NumberParams \cup BadParams :
         ServeBacklog(<<th, a, b>>)

SpecBacklog == Init /\ [][NextBacklog]_vars

\* ------------------------------------------------------------- frame codec

\* the values of messageType, an 8-bit unsigned integer
TypeValues == 0..255

\* the largest type tag of the protocol: two decimal digits
MaxTypeTag == 99

\* values handed to encodeMessage as the payload: null, numbers, strings
\* and a value encoding/json has no encoding for
Payloads ==
    {[kind |-> "null"], [kind |-> "chan"]}
    \cup {[kind |-> "num", n |-> n] : n \in {0, 7, 12}}
    \cup {[kind |-> "str", s |-> t] : t \in {<<>>, <<"a">>, <<"4", "2">>}}

errMarshal == "json.UnsupportedTypeError"

\* json.Marshal(v): [err, data]
Marshal(v) ==
    CASE v.kind = "null" -> [err |-> nil, data |-> <<"n", "u", "l", "l">>]
      [] v.kind = "num" -> [err |-> nil, data |-> FormatUint(v.n)]
      [] v.kind = "str" -> [err |-> nil, data |-> <<"\"">> \o v.s \o <<"\"">>]
      [] OTHER -> [err |-> errMarshal, data |-> <<>>]

\* the zero byte of a fresh slice
NUL == "NUL"

\* make([]byte, n)
MakeBytes(n) == [i \in 1..n |-> NUL]

\* copy(dst[from:], src), from counted from 0: as many bytes as both hold
CopyAt(dst, from, src) ==
    [i \in 1..Len(dst) |->
        IF i > from /\ i - from <= Len(src) THEN src[i - from] ELSE dst[i]]

encodeMessage_NoPadding(typ, msg) ==
    LET m == Marshal(msg) IN
    IF m.err # nil THEN [err |-> m.err, frame |-> <<>>]
    ELSE LET typeString == FormatUint(typ)
             withType == CopyAt(MakeBytes(Len(m.data) + 2), 0, typeString) IN
         [err |-> nil, frame |-> CopyAt(withType, 2, m.data)]

\* encodeMessage(typ, msg): [err, frame]
encodeMessage(typ, msg) ==
    LET m == Marshal(msg) IN
    IF m.err # nil THEN [err |-> m.err, frame |-> <<>>]
    ELSE LET encoded0 == MakeBytes(Len(m.data) + 2)
             typeString == FormatUint(typ)
             withType ==
                 IF Len(typeString) = 1
                 THEN [encoded0 EXCEPT ![1] = "0", ![2] = typeString[1]]
                 ELSE CopyAt(encoded0, 0, typeString) IN
         [err |-> nil, frame |-> CopyAt(withType, 2, m.data)]

\* what handleMessage and runHandler read from a frame: the type from the
\* first two bytes and the payload from the rest; [err, typ, data]
decodeFrame(msg) ==
    IF Len(msg) < 2 THEN [err |-> errInvalidPayload, typ |-> -1, data |-> <<>>]
    ELSE LET uncast == ParseUint(SubSeq(msg, 1, 2), 8) IN
         IF uncast = -1
         THEN [err |-> errInvalidPayload, typ |-> -1, data |-> <<>>]
         ELSE [err |-> nil, typ |-> uncast, data |-> SubSeq(msg, 3, Len(msg))]

\* a call of encodeMessage
EncodeMessage(typ, msg) ==
    /\ encoded = NoEnc
    /\ LET r == encodeMessage(typ, msg) IN
       encoded' = [typ |-> typ, payload |-> msg, err |-> r.err,
                   frame |-> r.frame]
    /\ decoded' = NoDec
    /\ UNCHANGED <<actorVars, handshake, backlogVars, timeVars>>

\* the frame encodeMessage returned is received and read
DecodeFrame ==
    /\ encoded # NoEnc /\ encoded.err = nil
    /\ decoded = NoDec
    /\ decoded' = decodeFrame(encoded.frame)
    /\ UNCHANGED <<actorVars, handshake, backlogVars, encoded, timeVars>>

NextCodec ==
    \/ \E typ \in TypeValues, msg \in Payloads : EncodeMessage(typ, msg)
    \/ DecodeFrame

SpecCodec == Init /\ [][NextCodec]_vars

\* ----------------------------------------------------------- specification

\* minutes the clock advances at once: up to the age a post may have, and
\* past it
ClockSteps == {PostTTL, PostTTL + 1}

Next ==
    \/ Listen
    \/ ListenerClose
    \/ ListenerReceive
    \/ ListenerHandle
    \/ ListenerReply
    \/ \E p \in Producers : ListenerTakeWrite(p)
    \/ ListenerSend
    \/ ListenerPing
    \/ ListenerPingDone
    \/ ClientsRemove
    \/ CloseFeed
    \/ CloseClose
    \/ CloseWrite
    \/ CloseSwitch
    \/ CloseNotice
    \/ CloseFrame
    \/ ConnClose
    \/ ReceiverRead(MaxReads)
    \/ ReceiverQuit
    \/ \E p \in Producers : ProducerPick(p)
    \/ \E p \in Producers : ProducerPanic(p)
    \/ \E k \in Closers : CloseCheck(k)
    \/ \E k \in Closers : CloseDefault(k)

\* The connection with all its goroutines, in a time too short for a post
\* to age (the clock, which only hasPost reads, advances in SpecPost).
Spec == Init /\ [][Next]_vars

\* the steps of the goroutine running Listen that need no other party: an
\* operation of the loop in progress returns
LoopStep ==
    \/ Listen
    \/ ListenerHandle
    \/ ListenerReply
    \/ ListenerSend
    \/ ListenerPingDone

\* the steps of the teardown
TeardownStep ==
    \/ ClientsRemove
    \/ CloseFeed
    \/ CloseClose
    \/ CloseWrite
    \/ CloseSwitch
    \/ CloseNotice
    \/ CloseFrame
    \/ ConnClose

\* What the scheduler and the transport give: a goroutine that can take a
\* step takes it, a write in progress returns, a select that keeps finding
\* c.close closed takes that case in the end, and a read returns once the
\* transport is closed or has failed (on an open transport it returns only
\* when the peer sends a message).
Fairness ==
    /\ WF_vars(LoopStep)
    /\ WF_vars(TeardownStep)
    /\ SF_vars(ListenerClose)
    /\ WF_vars(ReceiverQuit)
    /\ WF_vars(ReceiverRead(MaxReads) /\ (conn = "closed" \/ readErr # nil))
    /\ \A k \in Closers : WF_vars(CloseDefault(k))

SpecFair == Spec /\ Fairness

\* The connection of a client that only its peer acts on: no goroutine calls
\* Close, no producer sends on c.write and the ping ticker does not fire.
NextPost ==
    \/ Listen
    \/ ListenerReceive
    \/ ListenerHandle
    \/ ListenerReply
    \/ ClientsRemove
    \/ CloseFeed
    \/ CloseClose
    \/ CloseWrite
    \/ CloseSwitch
    \/ CloseNotice
    \/ CloseFrame
    \/ ConnClose
    \/ ReceiverRead(MaxPostReads)
    \/ ReceiverQuit
    \/ \E d \in ClockSteps : Tick(d)

SpecPost == Init /\ [][NextPost]_vars

\* the upgrade request, and the connection when it is accepted
NextHandshake ==
    \/ \E origin \in Origins : Handler(origin)
    \/ Listen
    \/ ListenerReceive
    \/ ListenerHandle
    \/ ListenerReply
    \/ ClientsRemove
    \/ CloseFeed
    \/ CloseClose
    \/ CloseWrite
    \/ CloseSwitch
    \/ CloseNotice
    \/ CloseFrame
    \/ ConnClose
    \/ ReceiverRead(MaxTimedReads)
    \/ ReceiverQuit

SpecHandshake == InitHandshake /\ [][NextHandshake]_vars

\* The connection through time with a peer that sends messages, pings and
\* pongs: no goroutine calls Close and no producer sends on c.write.
NextTimed ==
    \/ Listen
    \/ ListenerReceive
    \/ ListenerHandle
    \/ ListenerReply
    \/ ListenerPing
    \/ ListenerPingDone
    \/ TeardownStep
    \/ ReceiverRead(MaxTimedReads)
    \/ ReceiverQuit
    \/ ReceiverTimeout
    \/ \E kind \in ControlKinds : PeerControl(kind)
    \/ \E d \in TimeSteps : TickSec(d)

SpecTimed == Init /\ [][NextTimed]_vars

\* The connection of a subscribed client through time, with the feed's
\* producers sending on c.write: no goroutine calls Close and the peer sends
\* no control frame.
NextStall ==
    \/ Listen
    \/ ListenerReceive
    \/ ListenerHandle
    \/ ListenerReply
    \/ \E p \in Producers : ListenerTakeWrite(p)
    \/ ListenerSend
    \/ ListenerPing
    \/ ListenerPingDone
    \/ TeardownStep
    \/ ReceiverRead(MaxTimedReads)
    \/ ReceiverQuit
    \/ ReceiverTimeout
    \/ \E p \in Producers : ProducerPick(p)
    \/ \E p \in Producers : ProducerPanic(p)
    \/ \E d \in TimeSteps : TickSec(d)

SpecStall == Init /\ [][NextStall]_vars

\* ------------------------------------------------------------------ claims

\* the type tag of a frame handleMessage can read one from, else -1
TypeTag(m) ==
    IF m.typ = TextMessage /\ Len(m.msg) >= 2
    THEN ParseUint(SubSeq(m.msg, 1, 2), 8) ELSE -1

\* C1: while the client is not synced, handleMessage rejects every text
\* frame whose two-digit type tag is neither synchronise nor resynchronise
\* with an error, no handler runs and nothing of the client changes, and
\* listenerLoop returns that error; whether the tag has a handler or not.
C1_UnsyncedRejects ==
    [][(/\ lpc = "handle" /\ lpc' # "handle"
        /\ ~synced
        /\ TypeTag(lmsg) \notin {-1, messageSynchronise, messageResynchronise})
       => (/\ ran' = -1
           /\ clientVars' = clientVars
           /\ lpc' = "exited"
           /\ err' = errInvalidPayload)]_vars

\* an unsynced client was sent a frame of a type that has a handler, and
\* the loop has ended with the error
C1_Witness ==
    /\ lpc = "exited" /\ ~synced
    /\ TypeTag(lmsg) = messageInsertPost
    /\ err = errInvalidPayload /\ ran = -1

\* C2: the pull of the range from the counter a client read to the current
\* counter returns the frames appended since the client read the counter,
\* in the order they were appended.
C2_BacklogReturnsMissed ==
    (resp.args = <<FormatUint(10), FormatUint(known), FormatUint(Len(log))>>
     /\ resp.status = 200)
    => resp.body = ConcatMessages(missed)

\* a client read the counter 1, two frames were appended, and the pull of
\* the range 1 to 3 was served
C2_Witness ==
    /\ known = 1 /\ Len(log) = 3 /\ Len(missed) = 2
    /\ resp.args = <<FormatUint(10), FormatUint(1), FormatUint(3)>>
    /\ resp.status = 200

\* the positions of the goroutine running Listen inside listenerLoop
LoopPcs == {"select", "handle", "reply", "sending", "pinging"}

\* C3: delivering a frame on a client's write channel returns without
\* waiting for the client's control loop: a producer that has started its
\* send can finish it while the loop is busy in a handler or in a write to
\* the transport.
C3_SendReturnsWithoutLoop ==
    \A p \in Producers :
        (ppc[p] = "send" /\ ~crashed
         /\ lpc \in {"handle", "reply", "sending", "pinging"})
        => ENABLED ListenerTakeWrite(p)

C5_WriteOrder ==
    /\ Len(wire) <= Len(taken)
    /\ wire = SubSeq(taken, 1, Len(wire))
    /\ (lpc \in LoopPcs \ {"sending"} => wire = taken)
    /\ (lpc = "sending" => taken = Append(wire, lmsg.msg))

\* two frames were taken and written and the loop is running
C5_Witness ==
    /\ Len(wire) = 2 /\ wire[1] # wire[2]
    /\ lpc \in LoopPcs

\* C6: however the control loop ended, once the goroutine that ran Listen
\* is finished the client is out of the registry and its transport is closed.
C6_ExitRemovesAndCloses ==
    lpc \in {"done", "panicked"} => (~registered /\ conn = "closed")

\* C7: a connection torn down with a post open has the post closed: the
\* body is flushed to the store and the open post is cleared.
C7_TeardownClosesPost ==
    lpc = "done" => (openPost.id = 0 /\ ~store.open)

\* an editing operation accesses an open post older than the ceiling
ExpiredAccess ==
    /\ lpc = "handle" /\ lpc' # "handle"
    /\ synced
    /\ TypeTag(lmsg) = messageAppend
    /\ openPost.id # 0
    /\ openPost.time < now - PostTTL

\* C8 as stated: the access closes the post and the operation fails with a
\* PostExpired error.
C8_ExpiredFailsWithPostExpired ==
    [][ExpiredAccess =>
        (openPost' = NoPost /\ err' = errPostExpired /\ lpc' = "exited")]_vars

\* C8, amended: the access calls closePost and the operation ends with
\* closePost's result, which is no PostExpired error: when the close
\* succeeds the body is flushed, the open post is cleared (so that no append
\* finds a post any more), nothing is appended and the operation returns no
\* error; when the close fails the operation fails with that error.
C8_ExpiredClosesPost ==
    [][ExpiredAccess =>
        \/ /\ openPost' = NoPost
           /\ store' = [open |-> FALSE, closed |-> TRUE,
                        body |-> openPost.bodyLength]
           /\ err' = nil /\ lpc' = "select"
        \/ /\ err' = errStore /\ lpc' = "exited"
           /\ openPost' = openPost /\ store' = store]_vars

\* an append met a post older than the ceiling and the post was closed
C8_Witness ==
    /\ ran = messageAppend /\ lpc = "select"
    /\ store.closed /\ openPost = NoPost

\* C9: an operation of the loop that fails ends the loop in that step, and
\* from then on no inbound message is handled, no frame is taken from
\* c.write or written, and the loop is not entered again.
C9_ErrorEndsLoop ==
    [][/\ (~errored /\ errored') => (lpc' = "exited" /\ err' # nil)
       /\ errored => /\ lpc' \notin LoopPcs
                     /\ taken' = taken /\ wire' = wire /\ ran' = ran
                     /\ errored']_vars

\* a write of a queued frame failed, the loop has ended, and an inbound
\* message is still waiting to be handed over
C9_Witness ==
    /\ errored /\ err = errWrite /\ lpc = "closeFeed"
    /\ rpc = "handoff" /\ rmsg.err = nil
    /\ Len(taken) = Len(wire) + 1

\* C10: no goroutine sends on the client's write channel after teardown has
\* closed it.
C10_NoSendOnClosedWrite ==
    /\ ~sendOnClosed
    /\ \A p \in Producers : ~(ppc[p] = "send" /\ writeCh = "closed")

\* a step of handleMessage that rejects the message with the error e: no
\* handler runs, nothing of the client changes and listenerLoop returns e
RejectedWith(e) ==
    /\ ran' = -1
    /\ clientVars' = clientVars
    /\ lpc' = "exited"
    /\ err' = e

\* C11: a frame that is not a text frame is rejected with errInvalidFrame
\* whether the client is synced or not and whatever its bytes are (a type
\* tag that has a handler, or no type tag at all): the frame kind is looked
\* at before the tag; no handler runs and listenerLoop returns the error.
C11_NonTextRejected ==
    [][(lpc = "handle" /\ lpc' # "handle" /\ lmsg.typ # TextMessage)
       => RejectedWith(errInvalidFrame)]_vars

\* a synced client was sent a binary frame that carries the tag of
\* synchronise, and the loop has ended with errInvalidFrame
C11_Witness ==
    /\ lpc = "exited" /\ synced
    /\ lmsg.typ = BinaryMessage /\ lmsg.msg = <<"3", "0">>
    /\ err = errInvalidFrame /\ ran = -1

\* a text frame of fewer than 2 bytes, or whose first two bytes are not
\* both decimal digits
Malformed(m) ==
    /\ m.typ = TextMessage
    /\ \/ Len(m.msg) < 2
       \/ ~IsDigit(m.msg[1])
       \/ ~IsDigit(m.msg[2])

\* C12: a malformed text frame is rejected with errInvalidPayload in every
\* state of the client, no handler runs and listenerLoop returns the error.
C12_MalformedRejected ==
    [][(lpc = "handle" /\ lpc' # "handle" /\ Malformed(lmsg))
       => RejectedWith(errInvalidPayload)]_vars

\* a synced client was sent a frame whose second byte is no digit, and the
\* loop has ended with errInvalidPayload
C12_Witness ==
    /\ lpc = "exited" /\ synced
    /\ lmsg.typ = TextMessage /\ lmsg.msg = <<"3", "x">>
    /\ err = errInvalidPayload /\ ran = -1

\* C13: for a synced client a text frame with a two-digit tag that has no
\* handler is rejected with errInvalidPayload, no handler runs and
\* listenerLoop returns the error.
C13_UnknownTypeRejected ==
    [][(/\ lpc = "handle" /\ lpc' # "handle"
        /\ synced
        /\ TypeTag(lmsg) # -1 /\ TypeTag(lmsg) \notin HandlerTypes)
       => RejectedWith(errInvalidPayload)]_vars

\* a synced client was sent the tag 99, and the loop has ended with
\* errInvalidPayload
C13_Witness ==
    /\ lpc = "exited" /\ synced
    /\ TypeTag(lmsg) = 99
    /\ err = errInvalidPayload /\ ran = -1

\* C14: for every message type (a tag of at most two decimal digits) and
\* every payload json.Marshal encodes, reading the frame encodeMessage
\* returned yields the type that was encoded and the bytes json.Marshal
\* gave for the payload.
C14_EncodeRoundTrip ==
    (decoded # NoDec /\ encoded.typ <= MaxTypeTag)
    => /\ decoded.err = nil
       /\ decoded.typ = encoded.typ
       /\ decoded.data = Marshal(encoded.payload).data

\* the type 3, of one digit, was encoded with a payload that starts with a
\* digit, and the frame was read back
C14_Witness ==
    /\ encoded.typ = 3 /\ encoded.payload = [kind |-> "num", n |-> 12]
    /\ encoded.frame = <<"0", "3", "1", "2">>
    /\ decoded.typ = 3 /\ decoded.data = <<"1", "2">>

\* C20: a pull whose start equals its end, or whose start is greater than
\* the thread's current counter (the length of its log), of a thread the
\* database has or has not, is answered with status 200 and an empty body
\* whenever the database answers the query at all (the only other response
\* is the 500 of a query the database failed, whatever the range).
C20_EmptyRangeIsEmptySuccess ==
    \A th \in {10, 11}, a, b \in 0..(MaxLog + 1) :
        (/\ resp.args = <<FormatUint(th), FormatUint(a), FormatUint(b)>>
         /\ (a = b \/ a > Len(log))
         /\ resp.status # 500)
        => (resp.status = 200 /\ resp.body = <<>>)

\* the log holds two frames and the pull of the range 1 to 1 was answered
C20_Witness ==
    /\ Len(log) = 2
    /\ resp.args = <<FormatUint(10), FormatUint(1), FormatUint(1)>>
    /\ resp.status = 200 /\ resp.body = <<>>


\* C16: once c.close is closed while the loop runs, the next select of the
\* loop takes the case of c.close: the loop leaves the select only to
\* return nil, handling no inbound message, taking no frame from c.write
\* and writing no ping.
C16_CloseObservedAtNextWait ==
    [][(closeCh = "closed" /\ lpc = "select" /\ lpc' # "select")
       => (lpc' = "exited" /\ err' = nil)]_vars

\* Close was called while the loop was running
CloseRaised == closeCh = "closed" /\ lpc \in LoopPcs

\* the closed state of a client: out of the registry, transport closed
ClosedState == ~registered /\ conn = "closed"

\* C17: after Close is called on a live client the loop exits and the
\* client reaches the closed state (or the whole process has ended).
C17_CloseLeadsToClosed ==
    CloseRaised ~> ((lpc \notin LoopPcs /\ ClosedState) \/ crashed)

\* C18: after the loop has exited the receiver goroutine returns (or the
\* whole process has ended).
C18_ReceiverTerminates ==
    (lpc \notin LoopPcs /\ lpc # "listen") ~> (rpc = "done" \/ crashed)
\* C15: a write of a frame taken from c.write is never in progress for
\* longer than writeTimeout: a write that stalls is aborted when the 30
\* seconds have passed.
C15_StalledWriteAborted ==
    lpc = "sending" => clock - wsince <= writeTimeout

\* a read of the receiver blocked on the live transport
ReadBlocked == rpc = "read" /\ readErr = nil /\ conn = "open"

\* the receiver starts with a read deadline readTimeout ahead
DeadlineSetAtStart ==
    (rpc = "idle" /\ rpc' # "idle") => rdeadline' = clock + readTimeout

\* a blocking read does not last beyond readTimeout after the last control
\* frame received (or the start): when that time has passed it has failed
DeadConnectionTimesOut ==
    (ReadBlocked /\ clock' > clock) => clock' <= lastCtl.at + readTimeout

\* the loop that takes the result of the read that timed out returns its
\* error
TimeoutEndsLoop ==
    (rpc = "handoff" /\ rpc' = "read" /\ rmsg.err = errTimeout)
    => (lpc' = "exited" /\ err' = errTimeout)

\* C19 as stated: every control frame received (a ping as well as a pong)
\* sets the read deadline readTimeout ahead, a connection on which nothing
\* is received for readTimeout has its blocking read fail, and the error
\* reaches the loop, which ends.
C19_AnyControlFrameRefreshes ==
    [][/\ DeadlineSetAtStart
       /\ (lastCtl' # lastCtl /\ rpc # "idle")
          => rdeadline' = clock + readTimeout
       /\ DeadConnectionTimesOut
       /\ TimeoutEndsLoop]_vars

\* C19, amended: the read deadline is set readTimeout ahead when the
\* receiver starts and by each pong received, and by nothing else (a ping
\* leaves it, and so does every other step); a connection on which nothing
\* is received for readTimeout has its blocking read fail, and the loop
\* that takes the result returns the error.
C19_PongRefreshes ==
    [][/\ DeadlineSetAtStart
       /\ (lastCtl' # lastCtl /\ rpc # "idle")
          => rdeadline' = IF lastCtl'.kind = "pong" THEN clock + readTimeout
                          ELSE rdeadline
       /\ (lastCtl' = lastCtl /\ rpc # "idle") => rdeadline' = rdeadline
       /\ DeadConnectionTimesOut
       /\ TimeoutEndsLoop]_vars

\* a pong at second 10 moved the deadline to second 50, nothing came after
\* it, the read failed at second 50 and the loop has ended with the error
C19_Witness ==
    /\ lastCtl = [kind |-> "pong", at |-> 10]
    /\ clock = 50
    /\ lpc = "exited" /\ err = errTimeout

\* the response to a pull of the range start to end of thread 10, when the
\* last request served is that pull
Pulled(start, end) ==
    /\ resp.args = <<FormatUint(10), FormatUint(start), FormatUint(end)>>
    /\ resp.status = 200

\* C21: two successive appends of f1 then f2 to a feed return counters
\* c1 < c2, and the range from c1 to c2 + 1 is exactly f1 then f2.
C21_RangeOfReturnedCounters ==
    \A i \in 1..(Len(log) - 1) :
        LET c1 == counters[i]
            c2 == counters[i + 1] IN
        /\ c1 < c2
        /\ Pulled(c1, c2 + 1)
           => resp.body = ConcatMessages(<<log[i], log[i + 1]>>)

\* C21, amended: two successive appends of f1 then f2 to a feed return
\* counters c1 < c2, and the range from c1 - 1 to c2 is exactly f1 then f2.
C21_RangeEndingAtReturnedCounter ==
    \A i \in 1..(Len(log) - 1) :
        LET c1 == counters[i]
            c2 == counters[i + 1] IN
        /\ c1 < c2
        /\ Pulled(c1 - 1, c2)
           => resp.body = ConcatMessages(<<log[i], log[i + 1]>>)

\* two different frames were appended after a first one, the appends
\* returned 2 and 3, and the pull of the range 1 to 3 was served
C21_Witness ==
    /\ Len(log) = 3 /\ log[2] # log[3]
    /\ counters[2] = 2 /\ counters[3] = 3
    /\ Pulled(1, 3)
    /\ resp.body = ConcatMessages(<<log[2], log[3]>>)

\* C22: for every cause of termination the teardown sends the client
\* either a close frame of the normal-closure code, or, for an abnormal
\* termination, a notice of the invalid message carrying the error's text
\* and then a close frame of another code than normal closure.
C22_CleanOrNoticedClose ==
    [][(lpc = "switch" /\ lpc' # "switch")
       => \/ /\ lpc' = "closeFrame"
             /\ closeType' = CloseNormalClosure
          \/ /\ lpc' = "notice"
             /\ err' = err
             /\ closeType' # CloseNormalClosure]_vars

\* the Origin headers whose host is the configured one
AllowedOrigins ==
    {o \in Origins :
        /\ Len(o) >= 3 /\ o[2] = "://" /\ o[3] = "allowed"
        /\ Len(o) > 3 => o[4] = "/"}

\* C23: a handshake is accepted only if the Origin header is empty or its
\* host is the configured allowed origin; for a rejected one (mismatch or
\* unparsable) no Client is created, no receive task is started and
\* nothing is added to the registry.
C23_OriginGatesTheClient ==
    /\ handshake.state = "accepted"
       => (handshake.origin = <<>> \/ handshake.origin \in AllowedOrigins)
    /\ handshake.state \in {"pending", "rejected"}
       => (lpc = "listen" /\ rpc = "idle" /\ ~registered)

\* a request whose Origin does not parse was refused, and Handler has
\* returned
C23_Witness ==
    /\ handshake = RejectedHandshake(<<"http", "://", "%">>)
    /\ lpc = "listen" /\ rpc = "idle" /\ ~registered

\* the loop hands an append to its handler while the client has no open
\* post
NoPostAccess ==
    /\ lpc = "handle" /\ lpc' # "handle"
    /\ synced
    /\ TypeTag(lmsg) = messageAppend
    /\ openPost.id = 0

\* C24: an editing operation on a client with no open post (id zero) fails
\* with NoPostOpen, closes nothing and leaves the open-post state as it
\* was.
C24_NoPostFailsWithNoPostOpen ==
    [][NoPostAccess =>
        /\ err' = errNoPostOpen /\ lpc' = "exited"
        /\ openPost' = openPost
        /\ store' = store]_vars

\* a synced client that never opened a post sent an append, and the loop
\* has ended with the error
C24_Witness ==
    /\ lpc = "exited" /\ err = errNoPostOpen
    /\ synced /\ TypeTag(lmsg) = messageAppend
    /\ openPost = NoPost /\ store = NoStore

\* C25: for every interleaving of any number of Close calls with an exit of
\* the control loop caused by an error, the close channel is closed exactly
\* once and never a second time.
C25_CloseChannelClosedOnce == closeCount <= 1

\* the teardown of a loop that ended with an error, after its switch has
\* replaced the error by nil: the error was the peer's close with the code
\* of normal closure or of going away
CleanPeerClose == errored /\ err = nil

\* C26: when the peer ends the connection with the close code of normal
\* closure or of going away, the teardown treats it as a clean close: it
\* writes no notice of an invalid message, the close frame it writes
\* carries the normal-closure code, and Listen returns no error unless
\* closing the socket itself fails.
C26_PeerCloseIsClean ==
    [][/\ (lpc = "switch" /\ lpc' # "switch"
           /\ err \in {errCloseNormal, errCloseGoingAway})
          => /\ lpc' = "closeFrame"
             /\ err' = nil /\ closeType' = CloseNormalClosure
             /\ notice' = "none"
       /\ (lpc = "closeFrame" /\ lpc' # "closeFrame" /\ CleanPeerClose)
          => /\ lpc' = "connClose"
             /\ closeFrame' \in {"none", CloseNormalClosure}
             /\ notice' = "none"
       /\ (lpc = "connClose" /\ lpc' # "connClose" /\ CleanPeerClose)
          => /\ lpc' = "done"
             /\ ret'.err = nil
             /\ notice' = "none"]_vars

\* the peer closed with the code of going away; the teardown wrote the
\* close frame of normal closure and no notice, closed the socket, and
\* Listen has returned nil
C26_Witness ==
    /\ lpc = "done" /\ CleanPeerClose
    /\ readErr = errCloseGoingAway
    /\ notice = "none" /\ closeFrame = CloseNormalClosure
    /\ ret = [err |-> nil, closeError |-> FALSE]
====
